---- MODULE Spec2Model ----
(***************************************************************************)
(* Resource lock manager of smart-updater: the file-backed, reentrant      *)
(* _ResourceLock (process_helper.py), the acquires_lock decorator          *)
(* (synchronisation.py), ResourceLock.all_acquired, and the callers in     *)
(* usb_switcher.py and app.py.                                             *)
(*                                                                         *)
(* Every process is one invocation of the tool.  It runs one top-level     *)
(* program (a sequence of acquire/release calls on one mutex, a call of a  *)
(* decorated function, a with-all_acquired block, a CLI command or a       *)
(* driver call) and exits; the operating system drops its file locks at    *)
(* exit.                                                                   *)
(***************************************************************************)
EXTENDS Integers, Sequences, FiniteSets, TLC

\* ------------------------------------------------------------------ bounds
NumProcs == 2
MaxNest == 2
MaxCalls == 1
MaxOps == 4
MaxFlocks == 2
MaxTicks == 2
MaxTimedOps == 3
NumThreads == 2

\* --------------------------------------------------------------- constants
Procs == 1..NumProcs

\* process_helper.ResourceLock: the members in declaration order, which is the
\* order `for lock in cls` yields them in.
EnumOrder == <<"KRAKE", "TARGET_INTERACTION", "INI", "CACHE", "LOG_DIRECTORY">>

Locks == {EnumOrder[i] : i \in 1..Len(EnumOrder)}

\* usb_switcher.ResourceLock: a second enum of the same name whose members'
\* values are plain strings, not mutexes.
ShadowLocks == {"usb_switcher.TARGET_INTERACTION", "usb_switcher.USB_ACCESS"}

\* acquires_lock used without the lock keyword
NoLockArg == "no-lock-argument"

\* timeout = -1 is FileLock's default: wait for ever
NoTimeout == -1

Timeouts == {NoTimeout}

\* the time one turn of the loop of FileLock.acquire may take, in whole units
Elapse == {0, 1}

Values == {"v1", "v2"}
BodyErrors == {"E1", "E2"}

NoOut == [t |-> "none", x |-> "none"]
Val(v) == [t |-> "val", x |-> v]
Err(e) == [t |-> "err", x |-> e]

VARIABLES
    fd,            \* fd[p][l]: p's mutex l has an open, flock-ed descriptor (is_locked)
    lock_counter,  \* lock_counter[p][l]: reentrant depth of p's mutex l
    handled,       \* handled[p][l]: __initial_failure_to_acquire_handled
    observer,      \* observer[p][l]: the callback handler attached to p's mutex l
    call,          \* call[p]: the acquire() call p is in, or made last
    stack,         \* stack[p]: p's call stack of scoped constructs
    last,          \* last[p]: what p's top-level program came to
    outputReg,     \* the output register of port 0 of the port expander
    data,          \* data[p]: the byte p's set_gpio_pin_output_level works on
    threads        \* threads[p][t]: the acquire() call of thread t of p

vars == <<fd, lock_counter, handled, observer, call, stack, last,
          outputReg, data, threads>>

\* ----------------------------------------------------------------- helpers
Max(a, b) == IF a >= b THEN a ELSE b
Min(a, b) == IF a <= b THEN a ELSE b

Top(p) == stack[p][Len(stack[p])]
Pop(s) == SubSeq(s, 1, Len(s) - 1)

NoCall == [st |-> "none", lock |-> "none", depth0 |-> 0, flocks |-> 0,
           nInit |-> 0, nSucc |-> 0, timeout |-> NoTimeout, ticks |-> 0,
           echo |-> ""]

NoLast == [kind |-> "none", lock |-> "none", fn |-> NoOut, wr |-> NoOut]

Frame(kind, lock, arg, phase) ==
    [kind |-> kind, lock |-> lock, arg |-> arg, phase |-> phase,
     out |-> NoOut, entered |-> <<>>, ops |-> <<>>, calls |-> 0]

\* the threads of a process that use its mutexes besides the main thread
ThreadIds == 1..NumThreads

NoThread == [st |-> "none", lock |-> "none", nInit |-> 0, nSucc |-> 0,
             failed |-> FALSE, holds |-> FALSE]

ThreadsIdle(p) == \A t \in ThreadIds : threads[p][t] = NoThread

\* ------------------------------------------------------------ port expander
NoData == -1

\* bit `pin` of a byte
Bit(byte, pin) == (byte \div (2 ^ pin)) % 2

\* `new_data = (data & ~(1 << pin_number)) + (level << pin_number)`
NewData(d, pin, level) == (d - Bit(d, pin) * (2 ^ pin)) + level * (2 ^ pin)

\* pinout: the pins of port 0 with direction "out" and the one with "in"
OutputPins == {0, 1, 2, 3, 4, 6, 7}
InputPin == 5

\* pinout: the "default" levels of port 0, Relay_1..5 and Eeprom_WP high
DefaultOutputs == 1 + 2 + 4 + 8 + 16 + 128

\* _read_port_inputs: the input register has the level of every pin, which
\* for an output pin is the bit of the output register and for the input
\* pin is the level `ext` applied from outside
ReadPortInputs(ext) == NewData(outputReg, InputPin, ext)

\* ------------------------------------------------------- callback handlers
\* (variant: the CLI handler is the one that asks to stop)
TerminateCli(obs) == obs = "cli"

\* (variant: every handler asks to stop)
TerminateAlways(obs) == TRUE

\* (variant: no handler ever asks to stop)
TerminateNever(obs) == FALSE

\* CLIResourceCallbackHandler.terminate_after_initial_failure is False; a
\* handler a caller attaches instead may answer True.
TerminateAfterInitialFailure(obs) == obs = "terminating"

\* typer.style(text, bold=True)
Style(text) == "ESC[1m" \o text \o "ESC[0m"

\* self.resource_lock.name of the handler that _ResourceLock.__init__ makes
\* for the mutex called `name`: CLIResourceCallbackHandler(self)
HandlerLockName(name) == name

\* What initial_failure() of the handler of mutex `name` writes to the
\* terminal; a handler a caller wrote is taken to write nothing.
InitialFailureEcho(obs, name) ==
    IF obs = "cli"
    THEN "Another instance of the framework is already using the "
         \o Style(HandlerLockName(name))
         \o " resource, waiting for the lock to get released.."
    ELSE ""

\* What success_after_initial_failure() writes: `...`, nothing
SuccessEcho(obs) == ""

\* ------------------------------------------------------------ the OS lock
\* (variant: a lock call that never refuses)
FlockNeverRefuses(p, l) == TRUE

\* (variant: a lock that makes a newcomer queue behind those who wait)
FlockBehindWaiters(p, l) ==
    /\ \A q \in Procs \ {p} : ~fd[q][l]
    /\ \A q \in Procs \ {p} : ~(call[q].st = "run" /\ call[q].lock = l)

\* (variant: one lock file for all names)
FlockOneFile(p, l) == \A q \in Procs \ {p} : \A k \in Locks : ~fd[q][k]

\* fcntl.flock(fd, LOCK_EX | LOCK_NB) inside FileLock._acquire: it succeeds
\* unless another process holds the lock of the same file.
FlockSucceeds(p, l) ==
    \A q \in Procs \ {p} :
        /\ ~fd[q][l]
        /\ \A t \in ThreadIds : ~(threads[q][t].holds /\ threads[q][t].lock = l)

\* (variant: a timeout test that does not look at the time)
ExpiredEarly(timeout, ticks) == timeout >= 0

\* `0 <= timeout < elapsed` in FileLock.acquire; the elapsed time is strictly
\* positive, `ticks` counts the whole units of it.
Expired(timeout, ticks) == timeout >= 0 /\ timeout <= ticks

\* (variant: every use of a name makes a mutex of its own, whose descriptor
\* the descriptor of the process's other mutex of that name locks out)
IterationEndsOwnInstance(p, l, h, timeout, ticks) ==
    IF ~fd[p][l] /\ FlockSucceeds(p, l) THEN "ok"
    ELSE IF ~h /\ TerminateAfterInitialFailure(observer[p][l]) THEN "abort"
    ELSE IF Expired(timeout, ticks) THEN "timeout"
    ELSE "sleep"

\* One turn of the loop of FileLock.acquire, with the overridden _acquire:
\* how it ends, given the flag `h` as it stands before the turn.
IterationEnds(p, l, h, timeout, ticks) ==
    IF fd[p][l] \/ FlockSucceeds(p, l) THEN "ok"
    ELSE IF ~h /\ TerminateAfterInitialFailure(observer[p][l]) THEN "abort"
    ELSE IF Expired(timeout, ticks) THEN "timeout"
    ELSE "sleep"

\* (variant: a release that counts down whether or not the mutex is locked)
ReleasedCounterUnchecked(p, l) == lock_counter[p][l] - 1

\* (variant: a release that gives up all levels at once)
ReleasedCounterForced(p, l) == 0

\* FileLock.release: nothing when the mutex is not locked; else one level
\* down, and the OS lock goes when the depth reaches zero.
ReleasedCounter(p, l) ==
    IF fd[p][l] THEN lock_counter[p][l] - 1 ELSE lock_counter[p][l]

\* (variant: a release that unlocks the file at any depth)
ReleasedFdEager(p, l) == FALSE

\* (variant: a release that tests the depth before it counts down)
ReleasedFdLate(p, l) ==
    IF fd[p][l] /\ lock_counter[p][l] = 0 THEN FALSE ELSE fd[p][l]

\* (variant: a release that never unlocks the file)
ReleasedFdNever(p, l) == fd[p][l]

ReleasedFd(p, l) ==
    IF fd[p][l] /\ lock_counter[p][l] - 1 = 0 THEN FALSE ELSE fd[p][l]

ReleaseToken(p, l) == IF fd[p][l] THEN "rel" ELSE "noop"

\* ----------------------------------------------------- propagating results
ErrorOf(end) ==
    IF end = "abort" THEN Err("TerminationAfterInitialFailure")
    ELSE IF end = "oserror" THEN Err("OSError")
    ELSE Err("Timeout")

\* The callee's frame is gone and `s` is the caller's stack: an error goes on
\* up through the caller's body, a value is used there and the body goes on.
Deliver(s, o) ==
    IF s # <<>> /\ o.t = "err"
    THEN [s EXCEPT ![Len(s)] = [@ EXCEPT !.phase = "exit", !.out = o]]
    ELSE s

\* What the top-level program came to, once its frame `f` is gone.
Finished(p, s, f, fn, wr) ==
    IF s = <<>>
    THEN [kind |-> f.kind, lock |-> f.lock, fn |-> fn, wr |-> wr]
    ELSE last[p]

\* FileLock.__exit__ returns None, so the with statement never swallows the
\* error of its body.
ExitSuppresses == FALSE

\* (variant: a wrapper that reports every failure as an error of its own)
WrapperOutcomeMasked(fn) ==
    IF fn.t = "err" THEN Err("RuntimeError") ELSE fn

\* `with lock.value: return function(*args, **kwargs)`
WrapperOutcome(fn) ==
    IF fn.t = "err" /\ ExitSuppresses THEN Val("None") ELSE fn

\* acquires_lock(..., *, lock=ResourceLock.KRAKE)
DecoratorLock(arg) == IF arg = NoLockArg THEN "KRAKE" ELSE arg

\* ---------------------------------------------------------------- acquire
\* (variant: a wrapper that runs the function without waiting for the lock)
AfterAcquireEager(s, l, end) ==
    LET n == Len(s)
        f == s[n]
    IN  IF f.kind = "wrap" THEN [s EXCEPT ![n].phase = "body"]
        ELSE IF end = "sleep" THEN s
        ELSE IF f.kind = "raw" THEN [s EXCEPT ![n].ops = Append(@, end)]
        ELSE [s EXCEPT ![n] =
                 [f EXCEPT !.entered = Append(f.entered, l),
                           !.phase = IF Len(f.entered) + 1 = Len(EnumOrder)
                                     THEN "body" ELSE "enter"]]

\* (variant: a bulk acquisition without an exit stack, so that a failure
\* leaves at once with what it has)
AfterAcquireNoUnwind(s, l, end) ==
    LET n == Len(s)
        f == s[n]
    IN  IF end = "sleep" THEN s
        ELSE IF f.kind = "raw" THEN [s EXCEPT ![n].ops = Append(@, end)]
        ELSE IF f.kind = "wrap"
        THEN IF end = "ok" THEN [s EXCEPT ![n].phase = "body"]
             ELSE Deliver(Pop(s), ErrorOf(end))
        ELSE IF end = "ok"
             THEN [s EXCEPT ![n] =
                      [f EXCEPT !.entered = Append(f.entered, l),
                                !.phase = IF Len(f.entered) + 1 = Len(EnumOrder)
                                          THEN "body" ELSE "enter"]]
             ELSE Deliver(Pop(s), ErrorOf(end))

\* Where the caller of acquire goes on: `s` is its stack, the top frame the
\* construct that called acquire on l.
AfterAcquire(s, l, end) ==
    LET n == Len(s)
        f == s[n]
    IN  IF end = "sleep" THEN s
        ELSE IF f.kind = "raw" THEN [s EXCEPT ![n].ops = Append(@, end)]
        ELSE IF f.kind = "wrap"
        THEN IF end = "ok" THEN [s EXCEPT ![n].phase = "body"]
             ELSE Deliver(Pop(s), ErrorOf(end))
        ELSE \* "all": ExitStack.enter_context in the for loop
             IF end = "ok"
             THEN [s EXCEPT ![n] =
                      [f EXCEPT !.entered = Append(f.entered, l),
                                !.phase = IF Len(f.entered) + 1 = Len(EnumOrder)
                                          THEN "body" ELSE "enter"]]
             ELSE IF f.entered = <<>> THEN Deliver(Pop(s), ErrorOf(end))
             ELSE [s EXCEPT ![n] = [f EXCEPT !.phase = "exit", !.out = ErrorOf(end)]]

\* (variant: an acquire that keeps the flag of the call before)
FlagNotReset(first, h) == h

\* `self.__initial_failure_to_acquire_handled = False` at the start of acquire
FlagAtStart(first, h) == IF first THEN FALSE ELSE h

\* (variant: an _acquire that never notes the failure it has reported)
HandledNeverSet(h, fired) == h

\* `self.__initial_failure_to_acquire_handled = True` in _acquire
HandledAfter(h, fired) == h \/ fired

\* `if self.__initial_failure_to_acquire_handled:` after super().acquire
\* returned
SuccessCallbackFires(end, h) == end = "ok" /\ h

\* time.perf_counter() - start_time at the timeout test, dt after the test
\* before (or after the start of the call); not kept without a timeout
ElapsedAfter(timeout, ticks, dt) ==
    IF timeout = NoTimeout THEN 0 ELSE Min(MaxTicks, ticks + dt)

\* (variant: a failed acquire that keeps the level it added)
CounterKept(c) == c

\* `self._context.lock_counter = max(0, self._context.lock_counter - 1)` as
\* an error leaves FileLock.acquire
CounterAfterFailure(c) == Max(0, c - 1)

\* _ResourceLock.acquire up to the end of one turn of the loop of
\* FileLock.acquire.  `first`: the call starts here (the flag is reset and the
\* depth goes up); otherwise the call slept and polls again.  The turn ends
\* dt after the one before.
AcquireTurn(p, l, first, timeout, dt, s) ==
    LET h0 == FlagAtStart(first, handled[p][l])
        cnt0 == IF first THEN lock_counter[p][l] + 1 ELSE lock_counter[p][l]
        c00 == IF first
               THEN [NoCall EXCEPT !.lock = l, !.depth0 = lock_counter[p][l],
                                   !.timeout = timeout]
               ELSE call[p]
        c0 == [c00 EXCEPT !.ticks = ElapsedAfter(c00.timeout, c00.ticks, dt)]
        end == IterationEnds(p, l, h0, c0.timeout, c0.ticks)
        tried == ~fd[p][l]
        failed == end # "ok"
        fired == tried /\ failed /\ ~h0
        h1 == HandledAfter(h0, fired)
        s1 == AfterAcquire(s, l, end)
    IN  /\ fd' = [fd EXCEPT ![p][l] = (end = "ok")]
        /\ lock_counter' = [lock_counter EXCEPT ![p][l] =
               IF end \in {"abort", "timeout"} THEN CounterAfterFailure(cnt0) ELSE cnt0]
        /\ handled' = [handled EXCEPT ![p][l] = h1]
        /\ call' = [call EXCEPT ![p] =
               [c0 EXCEPT !.st = IF end = "sleep" THEN "run" ELSE end,
                          !.flocks = Min(MaxFlocks, c0.flocks + IF tried THEN 1 ELSE 0),
                          !.nInit = c0.nInit + IF fired THEN 1 ELSE 0,
                          !.echo = c0.echo
                                   \o (IF fired
                                       THEN InitialFailureEcho(observer[p][l], l)
                                       ELSE "")
                                   \o (IF SuccessCallbackFires(end, h1)
                                       THEN SuccessEcho(observer[p][l])
                                       ELSE ""),
                          !.nSucc = c0.nSucc + IF SuccessCallbackFires(end, h1) THEN 1 ELSE 0]]
        /\ stack' = [stack EXCEPT ![p] = s1]
        /\ last' = [last EXCEPT ![p] =
               Finished(p, s1, s[Len(s)], NoOut, ErrorOf(end))]
        /\ UNCHANGED <<observer, outputReg, data, threads>>

\* _ResourceLock.acquire where opening the lock file fails: the flag has been
\* reset, the depth went up and comes down again as the error leaves
\* FileLock.acquire.
AcquireRaises(p, l, s) ==
    LET s1 == AfterAcquire(s, l, "oserror")
    IN  /\ ~fd[p][l]
        /\ handled' = [handled EXCEPT ![p][l] = FlagAtStart(TRUE, handled[p][l])]
        /\ lock_counter' = [lock_counter EXCEPT ![p][l] =
               CounterAfterFailure(lock_counter[p][l] + 1)]
        /\ call' = [call EXCEPT ![p] =
               [NoCall EXCEPT !.lock = l, !.depth0 = lock_counter[p][l],
                              !.st = "oserror", !.flocks = 1]]
        /\ stack' = [stack EXCEPT ![p] = s1]
        /\ last' = [last EXCEPT ![p] =
               Finished(p, s1, s[Len(s)], NoOut, ErrorOf("oserror"))]
        /\ UNCHANGED <<fd, observer, outputReg, data, threads>>

\* FileLock.release on l; the caller's stack becomes s1.
Release(p, l, s1) ==
    /\ fd' = [fd EXCEPT ![p][l] = ReleasedFd(p, l)]
    /\ lock_counter' = [lock_counter EXCEPT ![p][l] = ReleasedCounter(p, l)]
    /\ stack' = [stack EXCEPT ![p] = s1]
    /\ UNCHANGED <<handled, observer, outputReg, data, threads>>

Fresh(p) == stack[p] = <<>> /\ last[p] = NoLast

InBody(p) == stack[p] # <<>> /\ Top(p).phase = "body" /\ Top(p).kind \in {"wrap", "all"}

\* a body calls at most MaxCalls scoped constructs, at most MaxNest deep
CanCall(p) ==
    \/ Fresh(p)
    \/ InBody(p) /\ Len(stack[p]) < MaxNest /\ Top(p).calls < MaxCalls

\* the caller's stack with a frame for the construct it calls
Called(p, f) ==
    IF stack[p] = <<>> THEN <<f>>
    ELSE Append([stack[p] EXCEPT ![Len(stack[p])].calls = @ + 1], f)

\* p is inside FileLock.acquire, asleep between two attempts
Waiting(p) == call[p].st = "run"

\* the loop of FileLock.acquire after time.sleep(poll_interval)
AcquirePoll(p) ==
    /\ call[p].st = "run"
    /\ \E dt \in Elapse :
          AcquireTurn(p, call[p].lock, FALSE, call[p].timeout, dt, stack[p])

\* ------------------------------------------- acquire and release, by hand
RawStart(p, l) ==
    /\ Fresh(p)
    /\ stack' = [stack EXCEPT ![p] = <<Frame("raw", l, l, "calls")>>]
    /\ UNCHANGED <<fd, lock_counter, handled, observer, outputReg, data, threads, call, last>>

RawAcquire(p, timeout) ==
    /\ stack[p] # <<>> /\ Top(p).kind = "raw"
    /\ call[p].st # "run"
    /\ Len(Top(p).ops) < MaxOps
    /\ \E dt \in Elapse :
          AcquireTurn(p, Top(p).lock, TRUE, timeout, dt, stack[p])

RawRelease(p) ==
    /\ stack[p] # <<>> /\ Top(p).kind = "raw"
    /\ call[p].st # "run"
    /\ Len(Top(p).ops) < MaxOps
    /\ Release(p, Top(p).lock,
               [stack[p] EXCEPT ![Len(stack[p])].ops =
                    Append(@, ReleaseToken(p, Top(p).lock))])
    /\ UNCHANGED <<call, last>>

\* ------------------------------------------------- the decorated function
\* Calling a function decorated with acquires_lock: inner() enters
\* `with lock.value`, which calls acquire.
WrapCall(p, arg) ==
    /\ CanCall(p)
    /\ AcquireTurn(p, DecoratorLock(arg), TRUE, NoTimeout, 0,
                   Called(p, Frame("wrap", DecoratorLock(arg), arg, "enter")))

\* (variant: a wrapper that releases after the call instead of in a with
\* statement, so that an error of the function skips the release)
LeaveWrapNoFinally(p, fn) ==
    LET f == Top(p)
        s1 == Deliver(Pop(stack[p]), fn)
    IN  /\ IF fn.t = "err"
           THEN /\ stack' = [stack EXCEPT ![p] = s1]
                /\ UNCHANGED <<fd, lock_counter, handled, observer, outputReg, data, threads>>
           ELSE Release(p, f.lock, s1)
        /\ call' = [call EXCEPT ![p] = NoCall]
        /\ last' = [last EXCEPT ![p] = Finished(p, s1, f, fn, fn)]

\* Leaving `with lock.value` with the outcome `fn` of the function:
\* FileLock.__exit__ releases, then inner() returns or the error goes on.
LeaveWrap(p, fn) ==
    LET f == Top(p)
        wr == WrapperOutcome(fn)
        s1 == Deliver(Pop(stack[p]), wr)
    IN  /\ Release(p, f.lock, s1)
        /\ call' = [call EXCEPT ![p] = NoCall]
        /\ last' = [last EXCEPT ![p] = Finished(p, s1, f, fn, wr)]

InWrapBody(p) == InBody(p) /\ Top(p).kind = "wrap"

\* the decorated function returns v
WrapReturn(p, v) == InWrapBody(p) /\ LeaveWrap(p, Val(v))

\* the decorated function raises e
WrapRaise(p, e) == InWrapBody(p) /\ LeaveWrap(p, Err(e))

\* a call made by the decorated function raised, and the function lets the
\* error go on
WrapExit(p) ==
    /\ stack[p] # <<>> /\ Top(p).kind = "wrap" /\ Top(p).phase = "exit"
    /\ LeaveWrap(p, Top(p).out)

\* --------------------------------------------------------- all_acquired()
\* (variant: an enumeration whose order differs from process to process)
NextInOrderPerProcess(p, entered) ==
    IF p = 1 THEN EnumOrder[Len(entered) + 1]
    ELSE EnumOrder[Len(EnumOrder) - Len(entered)]

\* `for lock in cls`: the member after those entered, in every process the
\* same
NextInOrder(p, entered) == EnumOrder[Len(entered) + 1]

\* `with ResourceLock.all_acquired():` starts the generator, which opens the
\* ExitStack and enters the first member of the enum.
AllCall(p) ==
    /\ CanCall(p)
    /\ AcquireTurn(p, NextInOrder(p, <<>>), TRUE, NoTimeout, 0,
                   Called(p, Frame("all", "all", "all", "enter")))

\* the for loop goes to the next member
AllEnterNext(p) ==
    /\ stack[p] # <<>> /\ Top(p).kind = "all" /\ Top(p).phase = "enter"
    /\ call[p].st # "run"
    /\ AcquireTurn(p, NextInOrder(p, Top(p).entered), TRUE, NoTimeout, 0, stack[p])

\* all_acquired where the lock file of the first member cannot be opened
AllCallFails(p) ==
    /\ CanCall(p)
    /\ AcquireRaises(p, NextInOrder(p, <<>>),
                     Called(p, Frame("all", "all", "all", "enter")))

\* the for loop goes to the next member, whose lock file cannot be opened
AllEnterFails(p) ==
    /\ stack[p] # <<>> /\ Top(p).kind = "all" /\ Top(p).phase = "enter"
    /\ call[p].st # "run"
    /\ AcquireRaises(p, NextInOrder(p, Top(p).entered), stack[p])

\* the block under `with ResourceLock.all_acquired()` ends, normally or not
AllBodyEnd(p, o) ==
    /\ InBody(p) /\ Top(p).kind = "all"
    /\ stack' = [stack EXCEPT ![p][Len(stack[p])] =
                    [@ EXCEPT !.phase = "exit", !.out = o]]
    /\ call' = [call EXCEPT ![p] = NoCall]
    /\ UNCHANGED <<fd, lock_counter, handled, observer, outputReg, data, threads, last>>

\* (variant: an exit stack that leaves its contexts in the order of entry)
ExitStackPopFirst(entered) == entered[1]

\* ExitStack.__exit__ pops the context it entered last
ExitStackPop(entered) == entered[Len(entered)]

\* ExitStack.__exit__: one callback; after the last one the error, if any,
\* goes on to the caller
AllExit(p) ==
    /\ stack[p] # <<>> /\ Top(p).kind = "all" /\ Top(p).phase = "exit"
    /\ LET f == Top(p)
           l == ExitStackPop(f.entered)
           rest == SelectSeq(f.entered, LAMBDA x : x # l)
           s1 == IF rest = <<>> THEN Deliver(Pop(stack[p]), f.out)
                 ELSE [stack[p] EXCEPT ![Len(stack[p])].entered = rest]
       IN  /\ Release(p, l, s1)
           /\ UNCHANGED call
           /\ last' = [last EXCEPT ![p] =
                  IF rest = <<>> THEN Finished(p, s1, f, f.out, f.out) ELSE last[p]]

\* ------------------------------------------------- the driver and the CLI
\* usb_switcher.py decorates with `lock=ResourceLock.TARGET_INTERACTION`, and
\* the ResourceLock in scope there is the module's own enum.
DriverLockArg == "usb_switcher.TARGET_INTERACTION"

\* Portexpander methods under @acquires_lock
DecoratedOps == {"set_default_pin_state", "set_clamp"}

\* Portexpander methods that go to set_gpio_pin_output_level undecorated
PinOps == {"enable_usb_switch_pin", "disable_usb_switch_pin"}

Targets == {"pc", "PC", "ecu", "usb"}

\* str.lower on the targets above
Lower(t) == IF t = "PC" THEN "pc" ELSE t

\* UsbSwitcher.connect_peripheral_to_pi / connect_peripheral_to_external
PinOpFor(target, version) ==
    IF (target = "pc") = (version = "2.0")
    THEN "enable_usb_switch_pin" ELSE "disable_usb_switch_pin"

\* `with lock.value` needs a context manager; a str is none
EntersContext(arg) == DecoratorLock(arg) \in Locks

InBus(p) == \E i \in 1..Len(stack[p]) : stack[p][i].kind = "bus"
InCli(p) == \E i \in 1..Len(stack[p]) : stack[p][i].kind = "cli"

\* app.connect: the command body starts; an unknown target ends it at once.
\* UsbSwitcher() builds the Portexpander, whose constructor reads the chip's
\* configuration over the bus.
CliConnect(p, target, version) ==
    /\ Fresh(p)
    /\ IF Lower(target) \in {"pc", "ecu"}
       THEN /\ stack' = [stack EXCEPT ![p] =
                   << [Frame("cli", "none", Lower(target), "construct")
                          EXCEPT !.out = Val(version)],
                      Frame("bus", "none", "__init__", "read") >>]
            /\ UNCHANGED last
       ELSE /\ last' = [last EXCEPT ![p] =
                   [kind |-> "cli", lock |-> "none", fn |-> NoOut, wr |-> Err("Exit")]]
            /\ UNCHANGED stack
    /\ UNCHANGED <<fd, lock_counter, handled, observer, outputReg, data, threads, call>>

\* Portexpander.__init__ after _get_configuration.  If the directions are
\* as the pinout wants them the switcher is ready; if not, the constructor
\* sets them and calls set_default_pin_state, whose wrapper fails on entering
\* `with lock.value`; UsbSwitcher.__init__ swallows that and has no switcher.
CliConstructed(p, ioOk) ==
    /\ Len(stack[p]) = 2 /\ stack[p][1].kind = "cli" /\ stack[p][1].phase = "construct"
    /\ Top(p).kind = "bus" /\ Top(p).arg = "__init__"
    /\ stack' = [stack EXCEPT ![p] =
           << [stack[p][1] EXCEPT !.phase =
                  IF ioOk \/ EntersContext(DriverLockArg) THEN "ready" ELSE "noswitcher"] >>]
    /\ UNCHANGED <<fd, lock_counter, handled, observer, outputReg, data, threads, call, last>>

\* connect_peripheral_to_*: the switcher property raises without a switcher;
\* else the pin method starts set_gpio_pin_output_level
CliSwitch(p) ==
    /\ Len(stack[p]) = 1 /\ Top(p).kind = "cli"
    /\ Top(p).phase \in {"ready", "noswitcher"}
    /\ IF Top(p).phase = "ready"
       THEN /\ stack' = [stack EXCEPT ![p] =
                   << [Top(p) EXCEPT !.phase = "switch"],
                      Frame("bus", "none", PinOpFor(Top(p).arg, Top(p).out.x), "read") >>]
            /\ UNCHANGED last
       ELSE /\ stack' = [stack EXCEPT ![p] = <<>>]
            /\ last' = [last EXCEPT ![p] =
                   [kind |-> "cli", lock |-> "none", fn |-> NoOut,
                    wr |-> Err("USBConnectError")]]
    /\ UNCHANGED <<fd, lock_counter, handled, observer, outputReg, data, threads, call>>

\* a pin method called on a Portexpander directly
DrvPinCall(p, op) ==
    /\ Fresh(p)
    /\ stack' = [stack EXCEPT ![p] = <<Frame("bus", "none", op, "read")>>]
    /\ UNCHANGED <<fd, lock_counter, handled, observer, outputReg, data, threads, call, last>>

\* a decorated method called on a Portexpander directly: inner() fails on
\* entering `with lock.value`, the method itself never runs
DrvDecoratedCall(p, op) ==
    /\ Fresh(p)
    /\ ~EntersContext(DriverLockArg)
    /\ last' = [last EXCEPT ![p] =
           [kind |-> op, lock |-> DriverLockArg, fn |-> NoOut, wr |-> Err("TypeError")]]
    /\ UNCHANGED <<fd, lock_counter, handled, observer, outputReg, data, threads, call, stack>>

\* enable_external_relay(1) / disable_external_relay(1), undecorated too
RelayOps == {"enable_external_relay", "disable_external_relay"}

\* pinout: USB_Switch is pin 6 and Relay_1 is pin 0, both of port 0
PinOf(op) ==
    IF op \in PinOps THEN 6 ELSE 0

\* the level the method passes to set_gpio_pin_output_level
LevelOf(op) ==
    IF op \in {"enable_usb_switch_pin", "disable_external_relay"} THEN 1 ELSE 0

\* a relay method called on a Portexpander directly
DrvRelayCall(p, op) ==
    /\ Fresh(p)
    /\ stack' = [stack EXCEPT ![p] = <<Frame("bus", "none", op, "read")>>]
    /\ UNCHANGED <<fd, lock_counter, handled, observer, outputReg, data, threads, call, last>>

\* set_gpio_pin_output_level: read the port (226), then work out the new
\* byte from the byte read and write it to the output register (232-234)
BusStep(p) ==
    /\ stack[p] # <<>> /\ Top(p).kind = "bus" /\ Top(p).arg \in PinOps \cup RelayOps
    /\ Top(p).phase \in {"read", "write"}
    /\ stack' = [stack EXCEPT ![p][Len(stack[p])].phase =
                    IF @ = "read" THEN "write" ELSE "verify"]
    /\ IF Top(p).phase = "read"
       THEN /\ \E ext \in {0, 1} : data' = [data EXCEPT ![p] = ReadPortInputs(ext)]
            /\ UNCHANGED outputReg
       ELSE /\ outputReg' = NewData(data[p], PinOf(Top(p).arg), LevelOf(Top(p).arg))
            /\ data' = [data EXCEPT ![p] =
                   NewData(data[p], PinOf(Top(p).arg), LevelOf(Top(p).arg))]
    /\ UNCHANGED <<fd, lock_counter, handled, observer, threads, call, last>>

\* set_gpio_pin_output_level returns whether the byte read back is the one
\* written; connect() drops the result
BusEnd(p, ok) ==
    /\ stack[p] # <<>> /\ Top(p).kind = "bus" /\ Top(p).arg \in PinOps \cup RelayOps
    /\ Top(p).phase = "verify"
    /\ stack' = [stack EXCEPT ![p] = <<>>]
    /\ last' = [last EXCEPT ![p] =
           IF Len(stack[p]) = 2
           THEN [kind |-> "cli", lock |-> "none", fn |-> Val(ok), wr |-> Val("None")]
           ELSE [kind |-> Top(p).arg, lock |-> "none", fn |-> Val(ok), wr |-> Val(ok)]]
    /\ data' = [data EXCEPT ![p] = NoData]
    /\ UNCHANGED <<fd, lock_counter, handled, observer, outputReg, threads, call>>

\* ------------------------------------------------------------------ threads
\* fcntl.flock for a thread of p: each thread has its own descriptor, so the
\* lock is refused while another process or another thread of p holds it
ThreadFlockSucceeds(p, t, l) ==
    /\ FlockSucceeds(p, l)
    /\ ~fd[p][l]
    /\ \A u \in ThreadIds \ {t} : ~(threads[p][u].holds /\ threads[p][u].lock = l)

\* thread t of p calls acquire on p's mutex l: line 111 resets the flag of
\* the mutex, which all threads of p share
ThreadAcquireStart(p, t, l) ==
    /\ Fresh(p)
    /\ threads[p][t].st = "none"
    /\ handled' = [handled EXCEPT ![p][l] = FALSE]
    /\ threads' = [threads EXCEPT ![p][t] = [NoThread EXCEPT !.st = "started", !.lock = l]]
    /\ UNCHANGED <<fd, lock_counter, observer, call, stack, last, outputReg, data>>

\* one call of _acquire (127-134) in the loop of FileLock.acquire
ThreadAttempt(p, t) ==
    /\ threads[p][t].st \in {"started", "run"}
    /\ LET l == threads[p][t].lock
           got == ThreadFlockSucceeds(p, t, l)
           fires == ~got /\ ~handled[p][l]
       IN  /\ handled' = [handled EXCEPT ![p][l] = HandledAfter(handled[p][l], fires)]
           /\ threads' = [threads EXCEPT ![p][t] =
                  [@ EXCEPT !.st = IF got THEN "locked"
                                   ELSE IF fires /\ TerminateAfterInitialFailure(observer[p][l])
                                        THEN "abort"
                                   ELSE "run",
                            !.holds = got,
                            !.failed = @ \/ ~got,
                            !.nInit = IF fires THEN @ + 1 ELSE @]]
    /\ UNCHANGED <<fd, lock_counter, observer, call, stack, last, outputReg, data>>

\* super().acquire has returned; lines 113-115 read the flag
ThreadAcquireReturns(p, t) ==
    /\ threads[p][t].st = "locked"
    /\ threads' = [threads EXCEPT ![p][t] =
           [@ EXCEPT !.st = "ok",
                     !.nSucc = IF SuccessCallbackFires("ok", handled[p][threads[p][t].lock])
                               THEN @ + 1 ELSE @]]
    /\ UNCHANGED <<fd, lock_counter, handled, observer, call, stack, last, outputReg, data>>

\* the thread releases the lock
ThreadRelease(p, t) ==
    /\ threads[p][t].st = "ok"
    /\ threads' = [threads EXCEPT ![p][t] = [@ EXCEPT !.st = "done", !.holds = FALSE]]
    /\ UNCHANGED <<fd, lock_counter, handled, observer, call, stack, last, outputReg, data>>

\* ------------------------------------------------------------ process end
\* The process ends; the kernel closes its descriptors and with them drops
\* its locks.  The next invocation of the tool starts from the module state.
ProcessExit(p) ==
    /\ \/ stack[p] = <<>> /\ last[p] # NoLast
       \/ stack[p] # <<>> /\ Top(p).kind = "raw" /\ call[p].st # "run"
       \/ /\ ~ThreadsIdle(p)
          /\ \A t \in ThreadIds : threads[p][t].st \in {"none", "abort", "done"}
    /\ fd' = [fd EXCEPT ![p] = [l \in Locks |-> FALSE]]
    /\ lock_counter' = [lock_counter EXCEPT ![p] = [l \in Locks |-> 0]]
    /\ handled' = [handled EXCEPT ![p] = [l \in Locks |-> FALSE]]
    /\ call' = [call EXCEPT ![p] = NoCall]
    /\ stack' = [stack EXCEPT ![p] = <<>>]
    /\ last' = [last EXCEPT ![p] = NoLast]
    /\ observer' = [observer EXCEPT ![p] = [l \in Locks |-> "cli"]]
    /\ data' = [data EXCEPT ![p] = NoData]
    /\ threads' = [threads EXCEPT ![p] = [t \in ThreadIds |-> NoThread]]
    /\ UNCHANGED outputReg

\* ------------------------------------------------------------------- Init
Init ==
    /\ fd = [p \in Procs |-> [l \in Locks |-> FALSE]]
    /\ lock_counter = [p \in Procs |-> [l \in Locks |-> 0]]
    /\ handled = [p \in Procs |-> [l \in Locks |-> FALSE]]
    /\ observer = [p \in Procs |-> [l \in Locks |-> "cli"]]
    /\ call = [p \in Procs |-> NoCall]
    /\ stack = [p \in Procs |-> <<>>]
    /\ last = [p \in Procs |-> NoLast]
    /\ outputReg = DefaultOutputs
    /\ data = [p \in Procs |-> NoData]
    /\ threads = [p \in Procs |-> [t \in ThreadIds |-> NoThread]]

NextRaw ==
    \E p \in Procs :
        \/ \E l \in Locks : RawStart(p, l)
        \/ \E t \in Timeouts : RawAcquire(p, t)
        \/ RawRelease(p)
        \/ AcquirePoll(p)
        \/ ProcessExit(p)

SpecRaw == Init /\ [][NextRaw]_vars

\* Decorated functions, one inside the other up to MaxNest deep.
Next ==
    \E p \in Procs :
        \/ \E a \in Locks \cup {NoLockArg} : WrapCall(p, a)
        \/ \E v \in Values : WrapReturn(p, v)
        \/ \E e \in BodyErrors : WrapRaise(p, e)
        \/ WrapExit(p)
        \/ AcquirePoll(p)
        \/ ProcessExit(p)

Spec == Init /\ [][Next]_vars

\* with all_acquired() in one process, against decorated functions and other
\* all_acquired blocks in the others.
NextAll ==
    \E p \in Procs :
        \/ Fresh(p) /\ AllCall(p)
        \/ AllEnterNext(p)
        \/ AllExit(p)
        \/ \E o \in {Val("None")} \cup {Err(e) : e \in BodyErrors} : AllBodyEnd(p, o)
        \/ \E a \in Locks \cup {NoLockArg} : Fresh(p) /\ WrapCall(p, a)
        \/ \E v \in Values : WrapReturn(p, v)
        \/ \E e \in BodyErrors : WrapRaise(p, e)
        \/ AcquirePoll(p)
        \/ ProcessExit(p)

SpecAll == Init /\ [][NextAll]_vars

\* What a process that is inside a scoped construct does next by itself: the
\* loop of FileLock.acquire wakes from its sleep, a function or block ends,
\* the exit stack unwinds.
Progress(p) ==
    \/ AllEnterNext(p)
    \/ AllExit(p)
    \/ \E o \in {Val("None")} \cup {Err(e) : e \in BodyErrors} : AllBodyEnd(p, o)
    \/ \E v \in Values : WrapReturn(p, v)
    \/ \E e \in BodyErrors : WrapRaise(p, e)
    \/ AcquirePoll(p)

\* SpecAll where no process stays for ever at a step it can take: every
\* function and block ends, every sleep ends.
SpecAllFair == SpecAll /\ \A p \in Procs : WF_vars(Progress(p))

\* The CLI command and the driver's methods.
NextDriver ==
    \E p \in Procs :
        \/ \E t \in Targets : \E v \in {"1.0", "2.0"} : CliConnect(p, t, v)
        \/ \E ioOk \in BOOLEAN : CliConstructed(p, ioOk)
        \/ CliSwitch(p)
        \/ \E op \in PinOps : DrvPinCall(p, op)
        \/ \E op \in DecoratedOps : DrvDecoratedCall(p, op)
        \/ BusStep(p)
        \/ \E ok \in {"True", "False"} : BusEnd(p, ok)
        \/ ProcessExit(p)

SpecDriver == Init /\ [][NextDriver]_vars

\* --------------------------------------------- handlers and timed acquires
Observers == {"cli", "terminating"}

\* A caller replaces the handler of its mutexes (`callback_handler` is a
\* plain attribute) before it uses them.
AttachObserver(p, obs) ==
    /\ Fresh(p)
    /\ \A l \in Locks : observer[p][l] = "cli"
    /\ obs # "cli"
    /\ observer' = [observer EXCEPT ![p] = [l \in Locks |-> obs]]
    /\ UNCHANGED <<fd, lock_counter, handled, call, stack, last,
                   outputReg, data, threads>>

\* acquire(timeout=t): the timeouts callers pass, none included
TimedOuts == {NoTimeout, 0, 1}

\* the mutex the timed callers contend for
AcquireLocks == {"KRAKE"}

\* the caller has made fewer than MaxTimedOps calls
MoreTimedOps(p) == stack[p] # <<>> /\ Len(Top(p).ops) < MaxTimedOps

\* acquire with and without timeout, with either kind of handler
NextAcquire ==
    \E p \in Procs :
        \/ \E obs \in Observers : AttachObserver(p, obs)
        \/ \E l \in AcquireLocks : RawStart(p, l)
        \/ \E t \in TimedOuts : MoreTimedOps(p) /\ RawAcquire(p, t)
        \/ MoreTimedOps(p) /\ RawRelease(p)
        \/ AcquirePoll(p)
        \/ ProcessExit(p)

SpecAcquire == Init /\ [][NextAcquire]_vars

\* The scenario of one process waiting for another: every attempt that finds
\* the lock held is made before the timeout of its call has elapsed (the
\* holder lets go in time), and while a process waits for a lock no other
\* process starts to ask for it.
BeforeDeadline(p) ==
    call[p].st # "ok"
    => (call[p].timeout = NoTimeout \/ call[p].ticks < call[p].timeout)

WaitAcquire(p, t) ==
    /\ MoreTimedOps(p)
    /\ \A q \in Procs \ {p} : ~(Waiting(q) /\ call[q].lock = Top(p).lock)
    /\ RawAcquire(p, t)
    /\ BeforeDeadline(p)'

WaitPoll(p) == AcquirePoll(p) /\ BeforeDeadline(p)'

WaitRelease(p) == MoreTimedOps(p) /\ RawRelease(p)

NextWait ==
    \E p \in Procs :
        \/ \E l \in AcquireLocks : RawStart(p, l)
        \/ \E t \in TimedOuts : WaitAcquire(p, t)
        \/ WaitRelease(p)
        \/ WaitPoll(p)
        \/ ProcessExit(p)

\* every sleep ends, and a process that can release or end does
SpecWait ==
    /\ Init /\ [][NextWait]_vars
    /\ \A p \in Procs : WF_vars(WaitPoll(p))
    /\ \A p \in Procs : WF_vars(WaitRelease(p) \/ ProcessExit(p))

\* ------------------------------------------------ applying the decorator
\* acquires_lock called without a positional argument
NoTarget == "no-positional-argument"

\* values passed to acquires_lock as its positional argument
PositionalTargets ==
    {"None", "0", "''", "5", "'abc'", "function", "callable of length 0"}

\* callable(x)
Callable(x) == x \in {"function", "callable of length 0"}

\* bool(x)
Truthy(x) == x \in {"5", "'abc'", "function"}

\* What acquires_lock(x, lock=...) gives: `outer` when x is falsy, the
\* wrapped function `inner` when x is callable; for the rest the raise
\* statement fails on the name TestImplementationError, which the module
\* neither defines nor imports.
AcquiresLock(x) ==
    IF x = NoTarget \/ ~Truthy(x) THEN Val("outer")
    ELSE IF ~Callable(x) THEN Err("NameError")
    ELSE Val("inner")

\* a module applies acquires_lock while it is imported
Decorate(p, x, arg) ==
    /\ Fresh(p)
    /\ last' = [last EXCEPT ![p] =
           [kind |-> "acquires_lock", lock |-> arg, fn |-> Val(x),
            wr |-> AcquiresLock(x)]]
    /\ UNCHANGED <<fd, lock_counter, handled, observer, outputReg, data, threads, call, stack>>

NextDecorate ==
    \E p \in Procs :
        \/ \E x \in PositionalTargets \cup {NoTarget} :
              \E a \in Locks \cup {NoLockArg} : Decorate(p, x, a)
        \/ ProcessExit(p)

SpecDecorate == Init /\ [][NextDecorate]_vars

\* ------------------------------------------------- constructing a mutex
\* Path(tempfile.gettempdir(), "krake"), where the temporary directory is /tmp
DEFAULT_PARENT_DIRECTORY == "/tmp/krake"

EXTENSION == ".lock"

\* _ResourceLock(name) without parent_directory
NoParent == "None"

\* parent directories callers pass
ParentDirectories == {NoParent, "/tmp/krake", "/var/lock", "/run/user/1000"}

\* `parent_directory or self.DEFAULT_PARENT_DIRECTORY`; a Path is never falsy
Directory(parent) == IF parent = NoParent THEN DEFAULT_PARENT_DIRECTORY ELSE parent

\* Path.joinpath with a file name that has no separator in it
JoinPath(directory, file) == directory \o "/" \o file

\* (variant: a mutex that always lives in the default directory)
LockFilePathDefaultOnly(name, parent) ==
    JoinPath(DEFAULT_PARENT_DIRECTORY, name \o EXTENSION)

\* self.lock_file_path
LockFilePath(name, parent) == JoinPath(Directory(parent), name \o EXTENSION)

\* a process constructs a mutex of its own for a name of the enum
Construct(p, name, parent) ==
    /\ Fresh(p)
    /\ last' = [last EXCEPT ![p] =
           [kind |-> "_ResourceLock", lock |-> name, fn |-> Val(parent),
            wr |-> Val(LockFilePath(name, parent))]]
    /\ UNCHANGED <<fd, lock_counter, handled, observer, outputReg, data, threads, call, stack>>

\* what Path.mkdir(parents=True, exist_ok=True) and Path.chmod(0o777) may
\* come to
MkdirOutcomes == {"ok", "PermissionError", "FileExistsError"}
ChmodOutcomes == {"ok", "PermissionError", "FileNotFoundError"}

\* (variant: a constructor that lets the error of chmod through)
ChmodNothingSuppressed(e) == FALSE

\* `with suppress(PermissionError): directory.chmod(0o777)`
ChmodSuppressed(e) == e = "PermissionError"

\* _ResourceLock.__init__ (92-98) where mkdir and chmod end as given: the
\* path of the mutex, or the error that leaves the constructor
ConstructorOutcome(name, parent, mkdir, chmod) ==
    IF mkdir # "ok" THEN Err(mkdir)
    ELSE IF chmod # "ok" /\ ~ChmodSuppressed(chmod) THEN Err(chmod)
    ELSE Val(LockFilePath(name, parent))

\* a process constructs a mutex of its own; `fn` keeps how mkdir (t) and
\* chmod (x) ended
ConstructIn(p, name, parent, mkdir, chmod) ==
    /\ Fresh(p)
    /\ last' = [last EXCEPT ![p] =
           [kind |-> "_ResourceLock.__init__", lock |-> name,
            fn |-> [t |-> mkdir, x |-> chmod],
            wr |-> ConstructorOutcome(name, parent, mkdir, chmod)]]
    /\ UNCHANGED <<fd, lock_counter, handled, observer, outputReg, data, threads, call, stack>>

\* the process goes on to use the mutex it has constructed
UseConstructed(p) ==
    /\ stack[p] = <<>>
    /\ last[p].kind = "_ResourceLock.__init__"
    /\ last[p].wr.t = "val"
    /\ stack' = [stack EXCEPT ![p] = <<Frame("raw", last[p].lock, last[p].lock, "calls")>>]
    /\ UNCHANGED <<fd, lock_counter, handled, observer, outputReg, data, threads, call, last>>

NextConstruct ==
    \E p \in Procs :
        \/ \E name \in Locks : \E parent \in ParentDirectories :
              Construct(p, name, parent)
        \/ ProcessExit(p)

SpecConstruct == Init /\ [][NextConstruct]_vars

\* Decorated functions called from the block under all_acquired and from
\* one another.
NextNest ==
    \E p \in Procs :
        \/ Fresh(p) /\ AllCall(p)
        \/ AllEnterNext(p)
        \/ AllBodyEnd(p, Val("None"))
        \/ AllExit(p)
        \/ \E a \in Locks \cup {NoLockArg} : WrapCall(p, a)
        \/ WrapReturn(p, "v1")
        \/ WrapRaise(p, "E1")
        \/ WrapExit(p)
        \/ AcquirePoll(p)
        \/ ProcessExit(p)

SpecNest == Init /\ [][NextNest]_vars

\* ------------------------------------------------- a waiter that starves
\* A schedule of the program: every process runs acquire, release and ends,
\* over and over; a process that starts while another waits asks for the
\* lock that one waits for; and the polls of a waiting process all come at
\* moments when the lock is held.
StarveStart(p, l) ==
    /\ \A q \in Procs : Waiting(q) => call[q].lock = l
    /\ RawStart(p, l)

StarveAcquire(p) ==
    /\ stack[p] # <<>> /\ Top(p).ops = <<>>
    /\ RawAcquire(p, NoTimeout)

StarveRelease(p) ==
    /\ stack[p] # <<>> /\ Top(p).ops = <<"ok">>
    /\ RawRelease(p)

StarveExit(p) ==
    /\ stack[p] # <<>> /\ Top(p).ops = <<"ok", "rel">>
    /\ ProcessExit(p)

StarvePoll(p) ==
    /\ Waiting(p)
    /\ ~FlockSucceeds(p, call[p].lock)
    /\ AcquirePoll(p)

\* the steps of a process that does not wait
StarveRun(p) ==
    \/ \E l \in Locks : StarveStart(p, l)
    \/ StarveAcquire(p)
    \/ StarveRelease(p)
    \/ StarveExit(p)

NextStarve == \E p \in Procs : StarveRun(p) \/ StarvePoll(p)

\* no process stops by itself, and every sleep ends
SpecStarve ==
    /\ Init /\ [][NextStarve]_vars
    /\ \A p \in Procs : WF_vars(StarveRun(p))
    /\ \A p \in Procs : WF_vars(StarvePoll(p))

\* the mutexes the callers of SpecDefault use
DefaultLocks == {"KRAKE", "TARGET_INTERACTION"}

\* acquire with and without timeout on the mutexes as they are constructed
NextDefault ==
    \E p \in Procs :
        \/ \E l \in DefaultLocks : RawStart(p, l)
        \/ \E t \in TimedOuts : MoreTimedOps(p) /\ RawAcquire(p, t)
        \/ MoreTimedOps(p) /\ RawRelease(p)
        \/ AcquirePoll(p)
        \/ ProcessExit(p)

SpecDefault == Init /\ [][NextDefault]_vars

\* all_acquired with acquisitions that fail: by a handler that asks to stop,
\* or by the operating system
NextBulk ==
    \E p \in Procs :
        \/ \E obs \in Observers : AttachObserver(p, obs)
        \/ Fresh(p) /\ AllCall(p)
        \/ Fresh(p) /\ AllCallFails(p)
        \/ AllEnterNext(p)
        \/ AllEnterFails(p)
        \/ AllExit(p)
        \/ \E o \in {Val("None"), Err("E1")} : AllBodyEnd(p, o)
        \/ \E a \in Locks : Fresh(p) /\ WrapCall(p, a)
        \/ WrapReturn(p, "v1")
        \/ AcquirePoll(p)
        \/ ProcessExit(p)

SpecBulk == Init /\ [][NextBulk]_vars

\* all_acquired entered from the top level or from the body of a decorated
\* function, with acquisitions that the operating system may fail
NextMixed ==
    \E p \in Procs :
        \/ \E a \in Locks : Fresh(p) /\ WrapCall(p, a)
        \/ AllCall(p)
        \/ AllCallFails(p)
        \/ AllEnterNext(p)
        \/ AllEnterFails(p)
        \/ \E o \in {Val("None"), Err("E1")} : AllBodyEnd(p, o)
        \/ AllExit(p)
        \/ WrapReturn(p, "v1")
        \/ WrapExit(p)
        \/ AcquirePoll(p)
        \/ ProcessExit(p)

SpecMixed == Init /\ [][NextMixed]_vars

\* construction in the default directory under all outcomes of mkdir and
\* chmod, and use of the mutex
NextPermissions ==
    \E p \in Procs :
        \/ \E name \in DefaultLocks : \E mkdir \in MkdirOutcomes : \E chmod \in ChmodOutcomes :
              ConstructIn(p, name, NoParent, mkdir, chmod)
        \/ UseConstructed(p)
        \/ MoreTimedOps(p) /\ RawAcquire(p, NoTimeout)
        \/ MoreTimedOps(p) /\ RawRelease(p)
        \/ AcquirePoll(p)
        \/ ProcessExit(p)

SpecPermissions == Init /\ [][NextPermissions]_vars

\* the pin methods of the port expander called from several processes
NextPins ==
    \E p \in Procs :
        \/ \E op \in PinOps : DrvPinCall(p, op)
        \/ \E op \in RelayOps : DrvRelayCall(p, op)
        \/ BusStep(p)
        \/ \E ok \in {"True", "False"} : BusEnd(p, ok)
        \/ ProcessExit(p)

SpecPins == Init /\ [][NextPins]_vars

\* two threads of a process on the mutex that another process uses
NextThreads ==
    \E p \in Procs :
        \/ \E l \in AcquireLocks : ThreadsIdle(p) /\ RawStart(p, l)
        \/ MoreTimedOps(p) /\ RawAcquire(p, NoTimeout)
        \/ MoreTimedOps(p) /\ RawRelease(p)
        \/ AcquirePoll(p)
        \/ \E t \in ThreadIds : \E l \in AcquireLocks : ThreadAcquireStart(p, t, l)
        \/ \E t \in ThreadIds : ThreadAttempt(p, t)
        \/ \E t \in ThreadIds : ThreadAcquireReturns(p, t)
        \/ \E t \in ThreadIds : ThreadRelease(p, t)
        \/ ProcessExit(p)

SpecThreads == Init /\ [][NextThreads]_vars

\* =========================================================================
\* Properties of acquire and release (SpecRaw)
\* =========================================================================
RawFrame(p) == stack[p] # <<>> /\ Top(p).kind = "raw"

\* p's sequence of calls grows by one call in this step
RawCallEnds(p) ==
    /\ RawFrame(p)
    /\ stack'[p] # <<>>
    /\ Len(stack'[p][1].ops) = Len(stack[p][1].ops) + 1

RawToken(p) == stack'[p][1].ops[Len(stack'[p][1].ops)]

IsReleaseToken(t) == t \in {"rel", "noop"}

\* N >= 1 successful acquires followed by N releases
IsBalanced(ops) ==
    /\ Len(ops) >= 2
    /\ Len(ops) % 2 = 0
    /\ \A i \in 1..Len(ops) :
          IF 2 * i <= Len(ops) THEN ops[i] = "ok" ELSE IsReleaseToken(ops[i])

\* C1: in no reachable state do two distinct processes hold the OS-level lock
\* of the same name.
C1_MutualExclusion ==
    \A l \in Locks : \A p, q \in Procs :
        p # q => ~(fd[p][l] /\ fd[q][l])

\* one process holds the lock and another has been refused it twice
C1_Witness ==
    \E l \in Locks : \E p, q \in Procs :
        /\ p # q
        /\ fd[p][l]
        /\ call[q].st = "run" /\ call[q].lock = l /\ call[q].flocks >= 2

\* C7: an acquire by a process that already holds the mutex succeeds at once,
\* without a call of the OS lock and without any callback, and raises the
\* depth by one; a release gives the OS lock up only when it takes the depth
\* from one to zero.
C7_Reentrancy ==
    [][\A p \in Procs :
          /\ (RawFrame(p) /\ call[p].st # "run" /\ fd[p][Top(p).lock]
                /\ stack'[p] # <<>> /\ call'[p].st = "run") => FALSE
          /\ (RawCallEnds(p) /\ call[p].st # "run" /\ fd[p][Top(p).lock]
                /\ ~IsReleaseToken(RawToken(p)))
             => /\ RawToken(p) = "ok"
                /\ lock_counter'[p][Top(p).lock] = lock_counter[p][Top(p).lock] + 1
                /\ fd' = fd
                /\ call'[p].flocks = 0
                /\ call'[p].nInit = 0
                /\ call'[p].nSucc = 0
          /\ (RawCallEnds(p) /\ IsReleaseToken(RawToken(p)))
             => /\ lock_counter[p][Top(p).lock] >= 2 => fd'[p][Top(p).lock]
                /\ (fd[p][Top(p).lock] /\ ~fd'[p][Top(p).lock])
                   => lock_counter[p][Top(p).lock] = 1
                      /\ lock_counter'[p][Top(p).lock] = 0
      ]_vars

\* two acquires, then one release: the depth is one and the lock still held
C7_Witness ==
    \E p \in Procs :
        /\ RawFrame(p)
        /\ Top(p).ops = <<"ok", "ok", "rel">>
        /\ fd[p][Top(p).lock]
        /\ lock_counter[p][Top(p).lock] = 1

\* C8: after N >= 1 successful acquires followed by N releases by one process
\* the depth is 0 and nobody holds the OS lock, so that the next attempt of
\* any other process succeeds.
C8_Balanced ==
    [][\A p \in Procs : \A l \in Locks :
          (RawCallEnds(p) /\ Top(p).lock = l /\ IsBalanced(stack'[p][1].ops))
          => /\ lock_counter'[p][l] = 0
             /\ \A q \in Procs : ~fd'[q][l]
             /\ \A q \in Procs \ {p} :
                   IterationEnds(q, l, FALSE, NoTimeout, 0)' = "ok"
      ]_vars

\* two acquires and two releases, and the other process holds the lock now
C8_Witness ==
    \E p, q \in Procs :
        /\ p # q
        /\ RawFrame(p)
        /\ Top(p).ops = <<"ok", "ok", "rel", "rel">>
        /\ lock_counter[p][Top(p).lock] = 0
        /\ fd[q][Top(p).lock]

WrapsHolding(p, l) ==
    {i \in 1..Len(stack[p]) :
        /\ stack[p][i].kind = "wrap"
        /\ stack[p][i].lock = l
        /\ stack[p][i].phase \in {"body", "exit"}}

\* a frame of a decorated function leaves p's stack in this step, the
\* function having run
WrapLeaves(p) ==
    /\ stack[p] # <<>>
    /\ Top(p).kind = "wrap"
    /\ Top(p).phase \in {"body", "exit"}
    /\ Len(stack'[p]) < Len(stack[p])

\* C4: the decorated function runs only once the mutex of its lock (KRAKE
\* when the decorator was given none) is held by the process, the process
\* holds it for as long as the function runs, and the wrapper returns the
\* value the function returned.
C4_ScopedLock ==
    \A p \in Procs :
        /\ \A i \in 1..Len(stack[p]) :
              LET f == stack[p][i]
              IN  (f.kind = "wrap" /\ f.phase \in {"body", "exit"})
                  => /\ f.lock = (IF f.arg = NoLockArg THEN "KRAKE" ELSE f.arg)
                     /\ fd[p][f.lock]
                     /\ lock_counter[p][f.lock] >= Cardinality(WrapsHolding(p, f.lock))
        /\ (last[p].kind = "wrap" /\ last[p].fn.t = "val")
           => last[p].wr = last[p].fn

\* one process is in a decorated function called by another decorated
\* function of the same lock, the other process's wrapper has returned v2
C4_Witness ==
    \E p, q \in Procs :
        /\ p # q
        /\ Len(stack[p]) = 2
        /\ Cardinality(WrapsHolding(p, "KRAKE")) = 2
        /\ stack[p][1].arg = NoLockArg
        /\ last[q].kind = "wrap" /\ last[q].wr = Val("v2")

\* C5: when a decorated function ends, by return or by error, the wrapper's
\* acquisition is released in the same step that gives control back; if it
\* was the process's only hold the lock is free, and the next attempt of any
\* other process succeeds.
C5_GuaranteedRelease ==
    [][\A p \in Procs : \A l \in Locks :
          (WrapLeaves(p) /\ Top(p).lock = l)
          => /\ lock_counter'[p][l] = lock_counter[p][l] - 1
             /\ lock_counter[p][l] = 1
                => /\ \A q \in Procs : ~fd'[q][l]
                   /\ \A q \in Procs \ {p} :
                         IterationEnds(q, l, FALSE, NoTimeout, 0)' = "ok"
      ]_vars

\* p's decorated function raised; q, which had been refused the lock, holds
\* it now
C5_Witness ==
    \E p, q \in Procs :
        /\ p # q
        /\ last[p].kind = "wrap" /\ last[p].wr.t = "err"
        /\ ~fd[p][last[p].lock]
        /\ call[q].st = "ok" /\ call[q].lock = last[p].lock /\ call[q].nInit = 1
        /\ fd[q][last[p].lock]

\* C6: an error of the decorated function reaches the wrapper's caller as
\* it is, and by then the release has run.
C6_FailureTransparent ==
    [][\A p \in Procs :
          /\ (last'[p] # last[p] /\ last'[p].kind = "wrap" /\ last'[p].fn.t = "err")
             => /\ last'[p].wr = last'[p].fn
                /\ lock_counter'[p][last'[p].lock] = lock_counter[p][last'[p].lock] - 1
          /\ (WrapLeaves(p) /\ Top(p).phase = "exit")
             => /\ stack'[p] = <<>> => last'[p].wr = Top(p).out
                /\ stack'[p] # <<>>
                   => /\ stack'[p][Len(stack'[p])].phase = "exit"
                      /\ stack'[p][Len(stack'[p])].out = Top(p).out
          /\ (WrapLeaves(p) /\ stack'[p] # <<>>
                /\ stack'[p][Len(stack'[p])].phase = "exit")
             => /\ stack'[p][Len(stack'[p])].out.t = "err"
                /\ stack'[p][Len(stack'[p])].out.x \in BodyErrors
      ]_vars

\* a wrapper has raised E2, the error of a function it called, and does not
\* hold the lock
C6_Witness ==
    \E p \in Procs :
        /\ last[p].kind = "wrap"
        /\ last[p].fn = Err("E2")
        /\ last[p].wr = Err("E2")
        /\ stack[p] = <<>>
        /\ \A l \in Locks : ~fd[p][l]

\* =========================================================================
\* Properties of all_acquired (SpecAll)
\* =========================================================================
ClaimedOrder == <<"KRAKE", "TARGET_INTERACTION", "INI", "CACHE", "LOG_DIRECTORY">>

HeldBy(p) == {l \in Locks : fd[p][l]}

ClaimedPrefix(k) == {ClaimedOrder[i] : i \in 1..k}

AllFrame(p) == stack[p] # <<>> /\ Top(p).kind = "all"

\* C10: all_acquired takes the five locks in the order KRAKE,
\* TARGET_INTERACTION, INI, CACHE, LOG_DIRECTORY and gives them back in the
\* reverse order: what a process inside it holds is always a prefix of that
\* order, the lock it waits for is the next of the order, its block runs with
\* all five, and nothing is held once it has left.
C10_BulkOrder ==
    \A p \in Procs :
        /\ AllFrame(p)
           => /\ HeldBy(p) = ClaimedPrefix(Len(Top(p).entered))
              /\ \A l \in HeldBy(p) : lock_counter[p][l] = 1
              /\ Top(p).phase = "body" => HeldBy(p) = Locks
              /\ Top(p).phase = "exit" => Top(p).entered # <<>>
              /\ call[p].st = "run"
                 => /\ Top(p).phase = "enter"
                    /\ call[p].lock = ClaimedOrder[Len(Top(p).entered) + 1]
        /\ last[p].kind = "all" => HeldBy(p) = {}

\* a block under all_acquired has raised and three locks are still to be
\* given back, while another process waits for the first lock
C10_Witness ==
    \E p, q \in Procs :
        /\ p # q
        /\ AllFrame(p)
        /\ Top(p).phase = "exit"
        /\ Top(p).out = Err("E1")
        /\ Top(p).entered = <<"KRAKE", "TARGET_INTERACTION", "INI">>
        /\ AllFrame(q) /\ call[q].st = "run" /\ call[q].lock = "KRAKE"

\* =========================================================================
\* Properties of the driver and the CLI (SpecDriver)
\* =========================================================================
\* C2 (as claimed): a process is inside a bus operation of the driver only
\* while it holds the TARGET_INTERACTION mutex, and no two processes are
\* inside a bus operation at the same time.
C2_HardwareSerialized ==
    /\ \A p \in Procs : InBus(p) => fd[p]["TARGET_INTERACTION"]
    /\ \A p, q \in Procs : p # q => ~(InBus(p) /\ InBus(q))

\* C3 (as claimed): the body of the connect command runs only while the
\* process holds the KRAKE mutex, and no two processes are in it at the same
\* time.
C3_CliSerialized ==
    /\ \A p \in Procs : InCli(p) => fd[p]["KRAKE"]
    /\ \A p, q \in Procs : p # q => ~(InCli(p) /\ InCli(q))

\* =========================================================================
\* Properties of the callbacks and of the timeout (SpecAcquire)
\* =========================================================================
\* p is in a call of acquire, or has made one
Called1(p) == call[p].st # "none"

\* the call has seen an attempt fail
HadFailure(p) ==
    \/ call[p].st \in {"run", "abort", "timeout"}
    \/ call[p].st = "ok" /\ call[p].flocks >= 2

\* C13: within one call of acquire initial_failure() is invoked at most once,
\* namely on the first attempt that fails, however many attempts fail after
\* it, and not at all when the first attempt succeeds.
C13_InitialFailureOnce ==
    \A p \in Procs :
        /\ call[p].nInit \in {0, 1}
        /\ call[p].nInit = 1 <=> HadFailure(p)
        /\ (call[p].st = "ok" /\ call[p].flocks <= 1) => call[p].nInit = 0

\* a call has been refused the lock twice and still waits, one
\* initial_failure() behind it
C13_Witness ==
    \E p \in Procs :
        /\ call[p].st = "run"
        /\ call[p].flocks = MaxFlocks
        /\ call[p].nInit = 1

\* C14: a call of acquire invokes success_after_initial_failure() once if it
\* succeeds after an attempt of its own failed, and not at all otherwise:
\* not when it fails, and not when only a call before it had a failure (the
\* flag is reset when a call starts).
C14_SuccessAfterFailure ==
    [][\A p \in Procs :
          /\ call'[p].nSucc =
                IF call'[p].st = "ok" /\ call'[p].nInit >= 1 THEN 1 ELSE 0
          /\ \A l \in Locks :
                (handled[p][l] /\ call[p].st # "run" /\ call'[p] # call[p]
                   /\ call'[p].lock = l /\ call'[p].st = "ok")
                => /\ call'[p].nSucc = 0
                   /\ ~handled'[p][l]
      ]_vars

\* a call has succeeded on its second attempt or later and has reported it
C14_Witness ==
    \E p \in Procs :
        /\ call[p].st = "ok"
        /\ call[p].flocks >= 2
        /\ call[p].nInit = 1
        /\ call[p].nSucc = 1
        /\ fd[p][call[p].lock]

\* the handler of the mutex of p's call asks to stop after the first failure
Terminating(p) == Called1(p) /\ observer[p][call[p].lock] = "terminating"

\* C15: with a handler whose terminate_after_initial_failure is true, a call
\* whose first attempt fails invokes initial_failure() once and fails with
\* TerminationAfterInitialFailure after that one attempt: it never sleeps,
\* never tries again and never times out; no other call fails that way.
C15_EarlyTermination ==
    \A p \in Procs :
        /\ Terminating(p)
           => /\ call[p].st \in {"ok", "abort"}
              /\ call[p].st = "ok" => (call[p].flocks <= 1 /\ call[p].nInit = 0)
              /\ call[p].st = "abort"
                 => /\ call[p].flocks = 1
                    /\ call[p].nInit = 1
                    /\ call[p].nSucc = 0
                    /\ ~fd[p][call[p].lock]
                    /\ lock_counter[p][call[p].lock] = call[p].depth0
        /\ call[p].st = "abort" => Terminating(p)

\* a call was stopped after its first attempt, and the lock is free now
C15_Witness ==
    \E p \in Procs :
        /\ Terminating(p)
        /\ call[p].st = "abort"
        /\ call[p].timeout = 1
        /\ \A q \in Procs : ~fd[q][call[p].lock]

\* more than the timeout of p's call has passed since the call started
TimeoutElapsed(p) ==
    call[p].timeout # NoTimeout /\ call[p].ticks >= call[p].timeout

\* C16 (as claimed): a call fails with Timeout only once its timeout has
\* elapsed, never without a timeout, and every call that found the lock held
\* by another process after its timeout elapsed has failed with Timeout.
C16_TimeoutAsClaimed ==
    \A p \in Procs :
        /\ call[p].st = "timeout" => TimeoutElapsed(p)
        /\ call[p].st \in {"run", "abort"} => ~TimeoutElapsed(p)

\* C16 (amended): as claimed, but for the call whose first attempt fails
\* under a handler that asks to stop: that call fails with
\* TerminationAfterInitialFailure, elapsed timeout or not.
C16_Timeout ==
    \A p \in Procs :
        /\ call[p].st = "timeout" => TimeoutElapsed(p)
        /\ call[p].st = "run" => ~TimeoutElapsed(p)
        /\ (call[p].st = "abort" /\ TimeoutElapsed(p))
           => (Terminating(p) /\ call[p].flocks = 1)

\* a call with a timeout slept, tried again and timed out, the other process
\* holding the lock all the while
C16_Witness ==
    \E p, q \in Procs :
        /\ p # q
        /\ call[p].st = "timeout" /\ call[p].timeout = 1 /\ call[p].flocks >= 2
        /\ fd[q][call[p].lock]

\* =========================================================================
\* Properties of all_acquired when an acquisition fails (SpecBulk)
\* =========================================================================
AcquireErrors == {ErrorOf(e) : e \in {"abort", "oserror", "timeout"}}

\* p's acquire call ends in failure in this step
AcquireFails(p) ==
    /\ call'[p] # call[p]
    /\ call'[p].st \in {"abort", "oserror", "timeout"}

\* C11: the block under all_acquired runs with every lock held; when the
\* acquisition of a lock fails, the locks entered before it are given back
\* before the error leaves all_acquired, the block has not run, and the
\* caller gets the error of the failed acquire.
C11_AllOrNone ==
    [][\A p \in Procs :
          /\ (stack'[p] # <<>> /\ stack'[p][1].kind = "all"
                /\ stack'[p][1].phase = "body")
             => \A l \in Locks : fd'[p][l]
          /\ (AllFrame(p) /\ AcquireFails(p))
             => /\ \A l \in Locks : fd'[p][l] = fd[p][l]
                /\ \A l \in Locks : lock_counter'[p][l] = lock_counter[p][l]
                /\ IF Top(p).entered = <<>>
                   THEN /\ stack'[p] = <<>>
                        /\ last'[p].wr = ErrorOf(call'[p].st)
                   ELSE /\ stack'[p] # <<>>
                        /\ stack'[p][1].phase = "exit"
                        /\ stack'[p][1].out = ErrorOf(call'[p].st)
                        /\ stack'[p][1].entered = Top(p).entered
          /\ (AllFrame(p) /\ Top(p).out \in AcquireErrors)
             => /\ Top(p).phase = "exit"
                /\ Len(Top(p).entered) < Len(ClaimedOrder)
                /\ stack'[p] # <<>> => stack'[p][1].phase = "exit"
          /\ (AllFrame(p) /\ stack'[p] = <<>> /\ last'[p] # NoLast)
             => /\ \A l \in Locks : ~fd'[p][l] /\ lock_counter'[p][l] = 0
                /\ Top(p).phase = "exit" => last'[p].wr = Top(p).out
      ]_vars

\* all_acquired was stopped at the third lock, which the other process
\* holds; the error has reached the caller and the first two locks are free
C11_Witness ==
    \E p, q \in Procs :
        /\ p # q
        /\ last[p].kind = "all"
        /\ last[p].wr = Err("TerminationAfterInitialFailure")
        /\ call[p].lock = "INI"
        /\ HeldBy(p) = {}
        /\ HeldBy(q) = {"INI"}

\* =========================================================================
\* Deadlock freedom of all_acquired (SpecAllFair)
\* =========================================================================
\* p waits for a lock that q holds
WaitsFor(p, q) == p # q /\ Waiting(p) /\ fd[q][call[p].lock]

\* C12: among processes that take several locks only through all_acquired
\* and otherwise one lock at a time, there is never a set of processes each
\* of which waits for a lock held by another of the set; and if every
\* function and block ends, the lock a process waits for is free again at
\* some later time, unless the process has got it by then.
C12_DeadlockFree ==
    /\ [](\A S \in SUBSET Procs :
            S # {} => \E p \in S : \A q \in S : ~WaitsFor(p, q))
    /\ \A p \in Procs :
          Waiting(p) ~> (~Waiting(p) \/ FlockSucceeds(p, call[p].lock))

\* a process inside all_acquired holds the first lock and waits for the
\* second, which a decorated function of the other process holds
C12_Witness ==
    \E p, q \in Procs :
        /\ AllFrame(p)
        /\ HeldBy(p) = {"KRAKE"}
        /\ Waiting(p) /\ call[p].lock = "TARGET_INTERACTION"
        /\ WaitsFor(p, q)
        /\ stack[q] # <<>> /\ Top(q).kind = "wrap"

\* =========================================================================
\* One process waits for another (SpecWait)
\* =========================================================================
\* p's call, made with a timeout, found the lock held by another process
FoundHeld(p) ==
    /\ call[p].timeout # NoTimeout
    /\ call[p].st \in {"run", "abort", "timeout"}

\* C17: a process holds a lock; another calls acquire on it with the CLI
\* handler and a timeout; the holder lets go before the timeout has elapsed
\* and nobody else asks for the lock.  Then the call succeeds in the end, and
\* its handler has been told of the initial failure once, no more.
C17_WaitThenSucceed ==
    /\ [](\A p \in Procs : call[p].nInit <= 1)
    /\ \A p \in Procs :
          FoundHeld(p)
          ~> (call[p].st = "ok" /\ call[p].nInit = 1 /\ fd[p][call[p].lock])

\* a call with a timeout has got the lock on its third attempt or later,
\* after one initial_failure(), and the former holder has let go
C17_Witness ==
    \E p, q \in Procs :
        /\ p # q
        /\ call[p].st = "ok" /\ call[p].timeout = 1
        /\ call[p].flocks >= 2 /\ call[p].nInit = 1
        /\ fd[p][call[p].lock]
        /\ RawFrame(q) /\ Top(q).ops = <<"ok", "rel">>

\* =========================================================================
\* Properties of applying the decorator (SpecDecorate)
\* =========================================================================
\* C18 (as claimed): acquires_lock given a positional argument that is not
\* callable, falsy or not, raises an error that is none of the errors of
\* acquire, and it takes no lock; it returns neither a decorator nor a
\* wrapped function.
C18_UsageErrorRejected ==
    \A p \in Procs :
        (/\ last[p].kind = "acquires_lock"
         /\ last[p].fn.x \in PositionalTargets
         /\ ~Callable(last[p].fn.x))
        => /\ last[p].wr.t = "err"
           /\ last[p].wr \notin AcquireErrors
           /\ \A l \in Locks : ~fd[p][l] /\ lock_counter[p][l] = 0

\* =========================================================================
\* Properties of the lock-file path (SpecConstruct)
\* =========================================================================
\* p has constructed a mutex
Constructed(p) == last[p].kind = "_ResourceLock"

\* the directory the mutex of p was to be put in
ParentOf(p) ==
    IF last[p].fn.x = "None" THEN "/tmp/krake" ELSE last[p].fn.x

\* C19: the path of a mutex is <parent directory>/<name>.lock, the parent
\* directory being the default one when none was given; two mutexes
\* constructed for the same name and parent directory have the same path;
\* the path of a mutex stays what it was at construction.
C19_PathDerivation ==
    /\ [](\A p \in Procs :
            Constructed(p)
            => last[p].wr = Val(ParentOf(p) \o "/" \o last[p].lock \o ".lock"))
    /\ [](\A p, q \in Procs :
            (/\ Constructed(p) /\ Constructed(q)
             /\ last[p].lock = last[q].lock
             /\ ParentOf(p) = ParentOf(q))
            => last[p].wr = last[q].wr)
    /\ [][\A p \in Procs :
            (Constructed(p) /\ Constructed(p)') => last'[p].wr = last[p].wr]_vars

\* two processes have each constructed the INI mutex in /var/lock
C19_Witness ==
    \E p, q \in Procs :
        /\ p # q
        /\ Constructed(p) /\ Constructed(q)
        /\ last[p].lock = "INI" /\ last[q].lock = "INI"
        /\ last[p].fn = Val("/var/lock") /\ last[q].fn = Val("/var/lock")
        /\ last[p].wr = Val("/var/lock/INI.lock")

\* =========================================================================
\* One mutex for each name in a process (SpecNest)
\* =========================================================================
\* the scopes of p that hold l: decorated functions of l that are running,
\* and a block under all_acquired that has entered l
ScopesHolding(p, l) ==
    {i \in 1..Len(stack[p]) :
        \/ /\ stack[p][i].kind = "wrap"
           /\ stack[p][i].lock = l
           /\ stack[p][i].phase \in {"body", "exit"}
        \/ /\ stack[p][i].kind = "all"
           /\ \E k \in 1..Len(stack[p][i].entered) : stack[p][i].entered[k] = l}

\* C20: all scopes of a process share one mutex, and with it one depth, for
\* each name: the depth counts the scopes that hold the name (and the call
\* that waits for it, if there is one).  A decorated function of lock l that is called while the
\* process holds l (inside the block under all_acquired, or inside another
\* function decorated with l) is in its body at once, without a call of the
\* OS lock and without waiting, and when it ends the outer scope still
\* holds l.
C20_OneMutexPerName ==
    /\ [](\A p \in Procs : \A l \in Locks :
            /\ lock_counter[p][l] =
                  Cardinality(ScopesHolding(p, l))
                  + (IF Waiting(p) /\ call[p].lock = l THEN 1 ELSE 0)
            /\ fd[p][l] <=> ScopesHolding(p, l) # {})
    /\ [][\A p \in Procs : \A l \in Locks :
            /\ (/\ stack[p] # <<>>
                /\ Len(stack'[p]) = Len(stack[p]) + 1
                /\ stack'[p][Len(stack'[p])].lock = l
                /\ fd[p][l])
               => /\ stack'[p][Len(stack'[p])].phase = "body"
                  /\ call'[p].st = "ok"
                  /\ call'[p].flocks = 0
                  /\ call'[p].nInit = 0
                  /\ lock_counter'[p][l] = lock_counter[p][l] + 1
                  /\ fd' = fd
            /\ (WrapLeaves(p) /\ Top(p).lock = l /\ lock_counter[p][l] >= 2)
               => /\ fd'[p][l]
                  /\ lock_counter'[p][l] = lock_counter[p][l] - 1
      ]_vars

\* a function decorated with INI has been called from the block under
\* all_acquired and has ended; the block goes on with all locks held once
C20_Witness ==
    \E p \in Procs :
        /\ Len(stack[p]) = 1
        /\ AllFrame(p)
        /\ Top(p).phase = "body"
        /\ Top(p).calls = 1
        /\ \A l \in Locks : fd[p][l] /\ lock_counter[p][l] = 1

\* =========================================================================
\* Starvation of a waiter (SpecStarve)
\* =========================================================================
\* C21: nothing orders the processes that want a lock.  Under the schedule
\* of SpecStarve a process that waits (without timeout) waits for ever,
\* while the lock it waits for is given up and taken by others again and
\* again: the flock of a newcomer succeeds though another process has
\* waited longer.
C21_WaiterStarves ==
    /\ [][\A p \in Procs : Waiting(p) => Waiting(p)']_vars
    /\ \A p \in Procs : \A l \in Locks :
          /\ (Waiting(p) /\ call[p].lock = l) ~> (\A q \in Procs : ~fd[q][l])
          /\ (Waiting(p) /\ call[p].lock = l)
             ~> (\E q \in Procs \ {p} :
                   fd[q][l] /\ call[q].st = "ok" /\ call[q].flocks = 1)

\* a process has been refused the lock twice and waits, and the lock is
\* free at this moment
C21_Witness ==
    \E p \in Procs :
        /\ Waiting(p)
        /\ call[p].timeout = NoTimeout
        /\ call[p].flocks >= 2
        /\ \A q \in Procs : ~fd[q][call[p].lock]

\* =========================================================================
\* The handler a mutex is constructed with (SpecDefault)
\* =========================================================================
\* C22: every mutex has the CLI handler it was constructed with.  With it a
\* call of acquire never fails with TerminationAfterInitialFailure: after an
\* attempt that failed the call sleeps and tries again unless its timeout
\* has elapsed.  initial_failure() writes a notice with the name of the
\* mutex the call is made on; success_after_initial_failure() writes
\* nothing.
C22_DefaultObserver ==
    \A p \in Procs :
        /\ \A l \in Locks : observer[p][l] = "cli"
        /\ call[p].st # "abort"
        /\ call[p].st = "timeout" => TimeoutElapsed(p)
        /\ HadFailure(p) /\ ~TimeoutElapsed(p) => call[p].st \in {"run", "ok"}
        /\ call[p].echo =
              IF HadFailure(p)
              THEN "Another instance of the framework is already using the ESC[1m"
                   \o call[p].lock
                   \o "ESC[0m resource, waiting for the lock to get released.."
              ELSE ""

\* a call with a timeout has got TARGET_INTERACTION on its second attempt
\* or later, after the notice
C22_Witness ==
    \E p \in Procs :
        /\ call[p].st = "ok" /\ call[p].nInit = 1 /\ call[p].nSucc = 1
        /\ call[p].flocks >= 2
        /\ call[p].timeout = 1
        /\ call[p].lock = "TARGET_INTERACTION"
        /\ call[p].echo # ""

\* =========================================================================
\* The depth of a mutex (SpecAcquire)
\* =========================================================================
\* C23 (as claimed): the depth of every mutex is at least 0, and the process
\* holds the OS lock of the mutex exactly when the depth is above 0.
C23_DepthIffHeld ==
    \A p \in Procs : \A l \in Locks :
        /\ lock_counter[p][l] >= 0
        /\ fd[p][l] <=> lock_counter[p][l] > 0

\* C23 (amended): the depth is at least 0 and is above 0 whenever the
\* process holds the OS lock; it is above 0 without the OS lock held only
\* while a call of acquire on the mutex waits for the lock, and it is 1 then.
C23_DepthInvariant ==
    \A p \in Procs : \A l \in Locks :
        /\ lock_counter[p][l] >= 0
        /\ fd[p][l] => lock_counter[p][l] > 0
        /\ (lock_counter[p][l] > 0 /\ ~fd[p][l])
           => (Waiting(p) /\ call[p].lock = l /\ lock_counter[p][l] = 1)
        /\ (Waiting(p) /\ call[p].lock = l)
           => (lock_counter[p][l] = 1 /\ ~fd[p][l])

\* one process holds the lock at depth 2, the other waits for it at depth 1
C23_Witness ==
    \E p, q \in Procs : \E l \in Locks :
        /\ p # q
        /\ fd[p][l] /\ lock_counter[p][l] = 2
        /\ Waiting(q) /\ call[q].lock = l
        /\ ~fd[q][l] /\ lock_counter[q][l] = 1

\* p's call of acquire ends in failure in this step
CallFails(p) ==
    /\ call'[p] # call[p]
    /\ call'[p].st \in {"abort", "timeout"}

\* C24: when a call of acquire fails with Timeout or with
\* TerminationAfterInitialFailure, the depth is what it was before the call,
\* the process does not hold the OS lock, no lock has changed hands, and the
\* next attempt of any process with any timeout ends as it would have ended
\* had the step of the failure not been taken.
C24_FailureLeavesNoTrace ==
    [][\A p \in Procs : \A l \in Locks :
          (CallFails(p) /\ call'[p].lock = l)
          => /\ lock_counter'[p][l] = call'[p].depth0
             /\ lock_counter'[p][l] = 0
             /\ ~fd'[p][l]
             /\ fd' = fd
             /\ \A q \in Procs : \A k \in Locks \ {l} :
                   lock_counter'[q][k] = lock_counter[q][k]
             /\ \A q \in Procs \ {p} : lock_counter'[q][l] = lock_counter[q][l]
             /\ \A q \in Procs : \A t \in {-1, 0, 1} :
                   IterationEnds(q, l, FALSE, t, 0)' = IterationEnds(q, l, FALSE, t, 0)
      ]_vars

\* a call timed out; the same process then took the lock and gave it back
C24_Witness ==
    \E p \in Procs :
        /\ RawFrame(p)
        /\ Top(p).ops = <<"timeout", "ok", "rel">>
        /\ lock_counter[p][Top(p).lock] = 0
        /\ ~fd[p][Top(p).lock]

\* =========================================================================
\* all_acquired inside a decorated function (SpecMixed)
\* =========================================================================
\* p is in all_acquired, called from the body of a decorated function
MixedNesting(p) ==
    /\ Len(stack[p]) = 2
    /\ stack[p][1].kind = "wrap"
    /\ stack[p][2].kind = "all"

\* C25: a process that holds a lock through the decorator and has entered
\* all_acquired is never in a state where it waits, without timeout, for a
\* lock held by another process that is inside all_acquired and waits for
\* the lock the first process holds.
C25_NoMixedDeadlock ==
    ~ \E p, q \in Procs :
        /\ p # q
        /\ MixedNesting(p)
        /\ Waiting(p) /\ call[p].timeout = NoTimeout
        /\ fd[q][call[p].lock]
        /\ stack[q] # <<>> /\ Top(q).kind = "all"
        /\ Waiting(q) /\ call[q].timeout = NoTimeout
        /\ call[q].lock = stack[p][1].lock
        /\ fd[p][call[q].lock]

\* the block of all_acquired on top of p's stack goes away in this step
AllLeaves(p) ==
    /\ stack[p] # <<>>
    /\ Top(p).kind = "all"
    /\ Len(stack'[p]) = Len(stack[p]) - 1

\* the scopes under the one on top of p's stack
Outer(s) == SubSeq(s, 1, Len(s) - 1)

\* the scopes with all that counts for the locks they hold
Holdings(s) ==
    [i \in 1..Len(s) |->
        <<s[i].kind, s[i].lock, s[i].entered, s[i].phase \in {"body", "exit"}>>]

\* C27: all_acquired leaves every depth as it found it.  At a point where
\* the process can enter all_acquired the depth of each lock is the number
\* of scopes of the process that hold it; while all_acquired is on top the
\* scopes under it hold what they held; when it has exited (after its block,
\* after a failing block, or after an entry that failed) the depth of each
\* lock is again the number of the scopes under it that hold the lock, and the
\* process holds the OS lock exactly when that number is above 0.  An entry
\* that fails at the first lock changes no depth and no OS lock.
C27_BulkDepthNeutral ==
    /\ [](\A p \in Procs : \A l \in Locks :
            CanCall(p) =>
               /\ lock_counter[p][l] = Cardinality(ScopesHolding(p, l))
               /\ fd[p][l] <=> lock_counter[p][l] > 0)
    /\ [][\A p \in Procs :
            /\ (/\ stack[p] # <<>> /\ Top(p).kind = "all"
                /\ Len(stack'[p]) = Len(stack[p]))
               => Holdings(Outer(stack'[p])) = Holdings(Outer(stack[p]))
            /\ AllLeaves(p) /\ stack'[p] # <<>>
               => /\ Holdings(stack'[p]) = Holdings(Outer(stack[p]))
                  /\ \A l \in Locks :
                        /\ lock_counter'[p][l] = Cardinality(ScopesHolding(p, l)')
                        /\ fd'[p][l] <=> lock_counter'[p][l] > 0
            /\ AllLeaves(p) /\ stack'[p] = <<>>
               => \A l \in Locks : lock_counter'[p][l] = 0 /\ ~fd'[p][l]
            /\ (call'[p] # call[p] /\ call'[p].st = "oserror" /\ call'[p].flocks = 1
                /\ Len(stack'[p]) = Len(stack[p]))
               => lock_counter'[p] = lock_counter[p] /\ fd' = fd
      ]_vars

\* p holds TARGET_INTERACTION in a decorated function; all_acquired, called
\* in its body, has failed at a later lock and has exited: the error is in
\* the decorated function, which still holds its lock once
C27_Witness ==
    \E p \in Procs :
        /\ Len(stack[p]) = 1
        /\ Top(p).kind = "wrap" /\ Top(p).lock = "TARGET_INTERACTION"
        /\ Top(p).phase = "exit" /\ Top(p).out = Err("OSError")
        /\ Top(p).calls = 1
        /\ lock_counter[p]["TARGET_INTERACTION"] = 1
        /\ fd[p]["TARGET_INTERACTION"]
        /\ \A l \in Locks \ {"TARGET_INTERACTION"} :
              lock_counter[p][l] = 0 /\ ~fd[p][l]
        /\ call[p].st = "oserror" /\ call[p].lock # "KRAKE"

\* =========================================================================
\* Callbacks with threads (SpecThreads)
\* =========================================================================
\* C26: with two threads of a process in acquire on the same mutex, the
\* start of one thread's call does not make the call of the other thread
\* fire initial_failure a second time, and does not make it skip
\* success_after_initial_failure when it returns after a failed attempt.
C26_ThreadCallbacks ==
    \A p \in Procs : \A t \in ThreadIds :
        /\ threads[p][t].nInit <= 1
        /\ (threads[p][t].st \in {"ok", "done"} /\ threads[p][t].failed)
           => threads[p][t].nSucc >= 1

\* =========================================================================
\* Setting one pin of the port expander (SpecPins)
\* =========================================================================
\* C29: the write of set_gpio_pin_output_level changes no bit of the output
\* register but that of its pin; stated for the pins that are outputs.
C29_OnlyThePin ==
    [][\A p \in Procs : \A j \in OutputPins :
          (/\ stack[p] # <<>> /\ Top(p).kind = "bus" /\ Top(p).phase = "write"
           /\ stack'[p] # stack[p]
           /\ j # PinOf(Top(p).arg))
          => Bit(outputReg', j) = Bit(outputReg, j)
      ]_vars

\* =========================================================================
\* Independence of the names (Spec)
\* =========================================================================
\* the mutexes whose depth or OS lock this step changes
Changed ==
    {x \in Procs \X Locks :
        \/ fd'[x[1]][x[2]] # fd[x[1]][x[2]]
        \/ lock_counter'[x[1]][x[2]] # lock_counter[x[1]][x[2]]}

\* p starts a call of acquire on l in this step
AcquireStarts(p, l) ==
    /\ call[p].st # "run"
    /\ call'[p] # call[p]
    /\ call'[p].st # "none"
    /\ call'[p].lock = l

\* C28: distinct names have distinct lock files; a step of a process on one
\* name changes the depth and the OS lock of that name in that process only
\* (the end of a process apart, which drops all it holds); and an acquire
\* of a name that no other process holds succeeds at its first attempt,
\* whatever other names are held by whom.
C28_NamesIndependent ==
    /\ [](\A n1, n2 \in Locks : \A parent \in ParentDirectories :
            n1 # n2 => LockFilePath(n1, parent) # LockFilePath(n2, parent))
    /\ [][\A p \in Procs :
            /\ ~(stack'[p] = <<>> /\ last'[p] = NoLast /\ last[p] # NoLast)
               => \A l \in Locks :
                     <<p, l>> \in Changed => Changed = {<<p, l>>}
            /\ \A l \in Locks :
                  (AcquireStarts(p, l) /\ \A q \in Procs \ {p} : ~fd[q][l])
                  => /\ call'[p].st = "ok"
                     /\ call'[p].nInit = 0
                     /\ fd'[p][l]
      ]_vars

\* p holds KRAKE and INI, q holds TARGET_INTERACTION; no call had to wait
C28_Witness ==
    \E p, q \in Procs :
        /\ p # q
        /\ fd[p]["KRAKE"] /\ fd[p]["INI"]
        /\ fd[q]["TARGET_INTERACTION"]
        /\ call[p].st = "ok" /\ call[p].lock = "INI" /\ call[p].flocks = 1
        /\ call[p].nInit = 0
        /\ call[q].st = "ok" /\ call[q].lock = "TARGET_INTERACTION"
        /\ call[q].flocks = 1 /\ call[q].nInit = 0

\* =========================================================================
\* Construction where mkdir or chmod fails (SpecPermissions)
\* =========================================================================
ConstructedIn(p) == last[p].kind = "_ResourceLock.__init__"

\* C30: when chmod of the parent directory fails with PermissionError the
\* constructor returns the mutex, with the path it has when chmod succeeds,
\* and the mutex can be acquired and released; when mkdir fails, its error
\* leaves the constructor and there is no mutex to use.
C30_BestEffortPermissions ==
    /\ [](\A p \in Procs :
            ConstructedIn(p) =>
               /\ (last[p].fn.t = "ok" /\ last[p].fn.x \in {"ok", "PermissionError"})
                  => last[p].wr = Val("/tmp/krake/" \o last[p].lock \o ".lock")
               /\ last[p].fn.t # "ok" => last[p].wr = Err(last[p].fn.t)
               /\ (stack[p] # <<>>) => last[p].wr.t = "val")
    /\ [][\A p \in Procs :
            (/\ ConstructedIn(p) /\ last[p].fn.t = "ok"
             /\ last[p].fn.x = "PermissionError"
             /\ AcquireStarts(p, last[p].lock)
             /\ \A q \in Procs \ {p} : ~fd[q][last[p].lock])
            => call'[p].st = "ok" /\ fd'[p][last[p].lock]
      ]_vars

\* a mutex constructed while chmod failed with PermissionError has been
\* acquired and released
C30_Witness ==
    \E p \in Procs :
        /\ ConstructedIn(p)
        /\ last[p].fn = [t |-> "ok", x |-> "PermissionError"]
        /\ RawFrame(p) /\ Top(p).ops = <<"ok", "rel">>
        /\ ~fd[p][last[p].lock]

====
